---- MODULE Spec2Model ----
(***************************************************************************)
(* Rock-Paper-Scissors Plus, AI judge (main.py): the match state, the bot  *)
(* move selector, the parser of the judge's reply and the round function.  *)
(*                                                                         *)
(* Text is modelled as a sequence of lines, a line as a sequence of        *)
(* tokens.  A token is an atomic piece of text: one of the six labels the  *)
(* parser looks for, a word, a decimal digit, a blank, or a run of digits   *)
(* longer than int() converts.  The labels are the only tokens holding a   *)
(* colon and they end with it, and no label can arise across the boundary  *)
(* of two tokens, so Python's `label in line` is membership of the label   *)
(* among the tokens of the line.                                           *)
(***************************************************************************)
EXTENDS Integers, Sequences, FiniteSets, TLC

VARIABLES game_state, sdk, api_key, cli, call, hist, upd

vars == <<game_state, sdk, api_key, cli, call, hist, upd>>

(***************************************************************************)
(* Bounds of the model.                                                    *)
(***************************************************************************)
MaxCalls == 3
MaxLines == 3
MaxPrior == 1

(***************************************************************************)
(* Tokens.                                                                 *)
(***************************************************************************)
RoundResultLabel == "Round Result:"
MoveStatusLabel == "Move Status:"
UserMoveLabel == "User Move:"
UpdatedScoreLabel == "Updated Score:"
UserLabel == "User:"
BotLabel == "Bot:"

Labels ==
  {RoundResultLabel, MoveStatusLabel, UserMoveLabel, UpdatedScoreLabel,
   UserLabel, BotLabel}

SP == " "
NL == "\n"
Whitespace == {SP, NL}

Digits == {"0", "1", "2", "3", "4", "5", "6", "7", "8", "9"}

DigitVal(d) ==
  CASE d = "0" -> 0 [] d = "1" -> 1 [] d = "2" -> 2 [] d = "3" -> 3
    [] d = "4" -> 4 [] d = "5" -> 5 [] d = "6" -> 6 [] d = "7" -> 7
    [] d = "8" -> 8 [] d = "9" -> 9

\* a run of digits with more digits than int() converts to an integer (the
\* interpreter's limit on the digits of an integer string), as one token
LongDigits == "<more digits than int() converts>"

\* what \d matches
DigitTokens == Digits \cup {LongDigits}

MOVES == {"rock", "paper", "scissors", "bomb"}

InitialState ==
  [round |-> 1, user_score |-> 0, bot_score |-> 0,
   user_bomb_used |-> FALSE, bot_bomb_used |-> FALSE]

(***************************************************************************)
(* String operations of the parser, on token sequences.                    *)
(***************************************************************************)
\* `tok in line`
Contains(line, tok) == \E k \in 1..Len(line) : line[k] = tok

\* str.upper() and str.lower() of one token
UpperTok(t) ==
  CASE t \in {"VALID", "Valid", "valid"} -> "VALID"
    [] t \in {"INVALID", "Invalid", "invalid"} -> "INVALID"
    [] t \in {"BOMB", "Bomb", "bomb"} -> "BOMB"
    [] t \in {"ROCK", "Rock", "rock"} -> "ROCK"
    [] OTHER -> t

LowerTok(t) ==
  CASE t \in {"VALID", "Valid", "valid"} -> "valid"
    [] t \in {"INVALID", "Invalid", "invalid"} -> "invalid"
    [] t \in {"BOMB", "Bomb", "bomb"} -> "bomb"
    [] t \in {"ROCK", "Rock", "rock"} -> "rock"
    [] OTHER -> t

upper(s) == [k \in 1..Len(s) |-> UpperTok(s[k])]
lower(s) == [k \in 1..Len(s) |-> LowerTok(s[k])]

RECURSIVE lstrip(_)
lstrip(s) ==
  IF s = <<>> THEN <<>>
  ELSE IF Head(s) \in Whitespace THEN lstrip(Tail(s)) ELSE s

RECURSIVE rstrip(_)
rstrip(s) ==
  IF s = <<>> THEN <<>>
  ELSE IF s[Len(s)] \in Whitespace THEN rstrip(SubSeq(s, 1, Len(s) - 1)) ELSE s

\* str.strip() of a piece of one line
strip(s) == rstrip(lstrip(s))

\* line.split(":")[-1]: the text after the last colon of the line
RECURSIVE split_last(_)
split_last(line) ==
  IF line = <<>> THEN <<>>
  ELSE IF line[Len(line)] \in Labels THEN <<>>
  ELSE split_last(SubSeq(line, 1, Len(line) - 1)) \o <<line[Len(line)]>>

IsBlank(line) == \A k \in 1..Len(line) : line[k] \in Whitespace

\* response_text.strip().split("\n"): blank lines and blanks at both ends of
\* the text go, and what is left is cut at the line breaks (never no line)
RECURSIVE DropLeading(_)
DropLeading(text) ==
  IF Len(text) = 1 THEN <<lstrip(text[1])>>
  ELSE IF IsBlank(text[1]) THEN DropLeading(Tail(text))
  ELSE <<lstrip(text[1])>> \o Tail(text)

RECURSIVE DropTrailing(_)
DropTrailing(text) ==
  IF Len(text) = 1 THEN <<rstrip(text[1])>>
  ELSE IF IsBlank(text[Len(text)])
       THEN DropTrailing(SubSeq(text, 1, Len(text) - 1))
       ELSE SubSeq(text, 1, Len(text) - 1) \o <<rstrip(text[Len(text)])>>

strip_split(text) == DropTrailing(DropLeading(text))

\* "\n".join(lines[i:])
RECURSIVE join(_, _)
join(lines, i) ==
  IF i > Len(lines) THEN <<>>
  ELSE IF i = Len(lines) THEN lines[i]
  ELSE lines[i] \o <<NL>> \o join(lines, i + 1)

\* \s* from position p: the first position that holds no blank
RECURSIVE SkipWs(_, _)
SkipWs(s, p) ==
  IF p <= Len(s) /\ s[p] \in Whitespace THEN SkipWs(s, p + 1) ELSE p

\* (\d+) matched greedily from position p: the digits of the group
RECURSIVE group_from(_, _)
group_from(s, p) ==
  IF p <= Len(s) /\ s[p] \in DigitTokens
  THEN <<s[p]>> \o group_from(s, p + 1)
  ELSE <<>>

\* whether label\s*(\d+) matches at position p
MatchAt(s, label, p) ==
  /\ s[p] = label
  /\ LET q == SkipWs(s, p + 1) IN q <= Len(s) /\ s[q] \in DigitTokens

\* re.search(label\s*(\d+), s): <<>> for None, else <<group(1)>> of the
\* leftmost match
re_search(label, s) ==
  LET hits == {p \in 1..Len(s) : MatchAt(s, label, p)} IN
  IF hits = {} THEN <<>>
  ELSE LET p == CHOOSE x \in hits : \A y \in hits : x <= y IN
       <<group_from(s, SkipWs(s, p + 1))>>

\* int(digits) raises ValueError when the digits are more than it converts
int_raises(digits) == Contains(digits, LongDigits)

\* the value of the digits, acc being the value of those read so far
RECURSIVE IntOf(_, _)
IntOf(digits, acc) ==
  IF digits = <<>> THEN acc
  ELSE IntOf(Tail(digits), acc * 10 + DigitVal(Head(digits)))

\* int(digits) when it does not raise
int(digits) == IntOf(digits, 0)

(***************************************************************************)
(* get_bot_move: the moves random.choice may return.                       *)
(***************************************************************************)
\* mutant: the used flag is not consulted
get_bot_move_any(gs) == MOVES

get_bot_move(gs) ==
  IF gs.bot_bomb_used THEN {"rock", "paper", "scissors"} ELSE MOVES

(***************************************************************************)
(* The three scans of update_state_from_response over the lines.           *)
(***************************************************************************)
\* the first line holding the label, 0 when there is none
FirstWith(lines, label) ==
  LET hits == {i \in 1..Len(lines) : Contains(lines[i], label)} IN
  IF hits = {} THEN 0 ELSE CHOOSE i \in hits : \A j \in hits : i <= j

\* the last line holding the label, 0 when there is none
LastWith(lines, label) ==
  LET hits == {i \in 1..Len(lines) : Contains(lines[i], label)} IN
  IF hits = {} THEN 0 ELSE CHOOSE i \in hits : \A j \in hits : i >= j

\* mutant: the loop of lines 58-64 without its break, the last labelled line
\* deciding
round_result_last(lines) ==
  LET i == LastWith(lines, RoundResultLabel) IN
  IF i = 0 THEN "none"
  ELSE IF Contains(lines[i], "User wins") THEN "user"
  ELSE IF Contains(lines[i], "Bot wins") THEN "bot"
  ELSE "none"

\* mutant: the tests of lines 60 and 62 made on the whole text, not on the
\* first labelled line
round_result_any(lines) ==
  IF FirstWith(lines, RoundResultLabel) = 0 THEN "none"
  ELSE IF \E i \in 1..Len(lines) : Contains(lines[i], "User wins") THEN "user"
  ELSE IF \E i \in 1..Len(lines) : Contains(lines[i], "Bot wins") THEN "bot"
  ELSE "none"

\* lines 57-64: the branch the round result loop takes; it breaks at the first
\* labelled line
round_result(lines) ==
  LET i == FirstWith(lines, RoundResultLabel) IN
  IF i = 0 THEN "none"
  ELSE IF Contains(lines[i], "User wins") THEN "user"
  ELSE IF Contains(lines[i], "Bot wins") THEN "bot"
  ELSE "none"

\* mutant: the loop of lines 69-73 stopping at the first labelled line
move_status_first(lines) ==
  LET i == FirstWith(lines, MoveStatusLabel) IN
  IF i = 0 THEN <<>> ELSE upper(strip(split_last(lines[i])))

\* lines 67-73: the values the loop leaves in move_status and
\* user_move_interpreted (every labelled line assigns, so the last one stays)
move_status(lines) ==
  LET i == LastWith(lines, MoveStatusLabel) IN
  IF i = 0 THEN <<>> ELSE upper(strip(split_last(lines[i])))

user_move_interpreted(lines) ==
  LET i == LastWith(lines, UserMoveLabel) IN
  IF i = 0 THEN <<>> ELSE lower(strip(split_last(lines[i])))

\* line 74
user_bomb_valid(lines) ==
  move_status(lines) = <<"VALID">> /\ user_move_interpreted(lines) = <<"bomb">>

\* mutant: the loop of lines 80-89 without the count of further lines and
\* without its break, the last labelled line being the one searched from
score_line_last(lines) == LastWith(lines, UpdatedScoreLabel)

\* mutant: line 81 asking for one further line (i + 1 < len(lines))
score_line_one_further(lines) ==
  LET hits == {i \in 1..Len(lines) :
                 Contains(lines[i], UpdatedScoreLabel) /\ i < Len(lines)}
  IN IF hits = {} THEN 0 ELSE CHOOSE i \in hits : \A j \in hits : i <= j

\* line 81: the first index (from 1) at which the loop enters its body, 0 when
\* it never does; the code's i + 2 < len(lines) counts from 0
score_line(lines) ==
  LET hits == {i \in 1..Len(lines) :
                 Contains(lines[i], UpdatedScoreLabel) /\ i + 1 < Len(lines)}
  IN IF hits = {} THEN 0 ELSE CHOOSE i \in hits : \A j \in hits : i <= j

\* mutant: line 86 with `or`, the number that is missing read as 0
updated_score_either(lines) ==
  LET i == score_line(lines) IN
  IF i = 0 THEN <<>>
  ELSE LET rest == join(lines, i)
           u == re_search(UserLabel, rest)
           b == re_search(BotLabel, rest)
       IN IF u # <<>> \/ b # <<>>
          THEN <<IF u # <<>> THEN u[1] ELSE <<"0">>,
                 IF b # <<>> THEN b[1] ELSE <<"0">>>>
          ELSE <<>>

\* lines 80-86: <<u.group(1), b.group(1)>> when the loop reaches line 87,
\* <<>> when it does not
updated_score(lines) ==
  LET i == score_line(lines) IN
  IF i = 0 THEN <<>>
  ELSE LET rest == join(lines, i)
           u == re_search(UserLabel, rest)
           b == re_search(BotLabel, rest)
       IN IF u # <<>> /\ b # <<>> THEN <<u[1], b[1]>> ELSE <<>>

(***************************************************************************)
(* The texts of the model.                                                 *)
(***************************************************************************)
LnUserWins == <<RoundResultLabel, SP, "User wins">>
LnBotWins == <<RoundResultLabel, SP, "Bot wins">>
LnDraw == <<RoundResultLabel, SP, "Draw">>
LnValid == <<MoveStatusLabel, SP, "VALID">>
LnInvalid == <<MoveStatusLabel, SP, "INVALID">>
LnUserBomb == <<UserMoveLabel, SP, "Bomb">>
LnUserRock == <<UserMoveLabel, SP, "rock">>
LnUpdatedScore == <<UpdatedScoreLabel>>
LnScoreInline == <<UpdatedScoreLabel, SP, UserLabel, SP, "1", SP, BotLabel, "1", "0">>
LnUser(d) == <<UserLabel, SP, d>>
LnBot(d) == <<BotLabel, SP, d>>

\* the lines a reply given to update_state_from_response is made of
Lines ==
  {<<>>, LnUserWins, LnBotWins, LnDraw, LnValid, LnInvalid, LnUserBomb,
   LnUpdatedScore, LnScoreInline, LnUser("3"), LnBot("2"),
   LnBot(LongDigits)}

RECURSIVE TextsOfLen(_)
TextsOfLen(n) ==
  IF n = 1 THEN {<<l>> : l \in Lines}
  ELSE {t \o <<l>> : t \in TextsOfLen(n - 1), l \in Lines}

Replies == UNION {TextsOfLen(n) : n \in 1..MaxLines}

\* a text of blanks only (an empty response.text never reaches the parser)
BlankText == << <<SP>> >>

\* line 130: what stands for a reply that has no text
NoTextReply == << <<"(No text in response)">> >>

\* the replies of the judge in a match: the layout the parser expects (round
\* result, move status, user move, then optionally the score block), and the
\* text of blanks
Verdicts ==
  {<<rr, m[1], m[2]>> :
     rr \in {LnUserWins, LnBotWins, LnDraw},
     m \in {<<LnValid, LnUserBomb>>, <<LnInvalid, LnUserBomb>>,
            <<LnValid, LnUserRock>>}}

JudgeReplies ==
  {BlankText} \cup Verdicts
  \cup {<<rr, LnValid, LnUserRock, LnUpdatedScore, LnUser(u), LnBot(b)>> :
          rr \in {LnUserWins, LnBotWins}, u \in {"0", "2"},
          b \in {"0", "2", LongDigits}}

JudgeTexts == JudgeReplies \cup {NoTextReply}

\* what the three loops of update_state_from_response read from a text
scan_lines(lines) ==
  [round_result |-> round_result(lines),
   user_bomb_valid |-> user_bomb_valid(lines),
   updated_score |-> updated_score(lines)]

\* scan_lines of every text of the model, tabulated once (@@ makes a function
\* an explicit table): the judge's texts by text, the texts of Replies line
\* by line
judge_table == [t \in JudgeTexts |-> scan_lines(strip_split(t))] @@ <<>>

RECURSIVE ReplyTable(_, _)
ReplyTable(prefix, n) ==
  IF n = 0 THEN scan_lines(strip_split(prefix))
  ELSE [l \in Lines |-> ReplyTable(prefix \o <<l>>, n - 1)] @@ <<>>

reply_table == [n \in 1..MaxLines |-> ReplyTable(<<>>, n)] @@ <<>>

RECURSIVE Walk(_, _, _)
Walk(table, text, k) ==
  IF k > Len(text) THEN table ELSE Walk(table[text[k]], text, k + 1)

scan(text) ==
  IF text \in JudgeTexts THEN judge_table[text]
  ELSE Walk(reply_table[Len(text)], text, 1)

(***************************************************************************)
(* update_state_from_response, in the order of the code.                   *)
(***************************************************************************)
\* mutant: the winner's point is taken from the other side
apply_round_result_transfer(gs, winner) ==
  IF winner = "user"
  THEN [gs EXCEPT !.user_score = @ + 1, !.bot_score = @ - 1]
  ELSE IF winner = "bot"
  THEN [gs EXCEPT !.bot_score = @ + 1, !.user_score = @ - 1]
  ELSE gs

\* lines 60-63
apply_round_result(gs, winner) ==
  IF winner = "user" THEN [gs EXCEPT !.user_score = @ + 1]
  ELSE IF winner = "bot" THEN [gs EXCEPT !.bot_score = @ + 1]
  ELSE gs

\* mutant: the user's flag is assigned the outcome of line 74 instead of
\* being set when it holds
apply_bomb_usage_assign(gs, user_bomb, bot_move) ==
  LET g1 == [gs EXCEPT !.user_bomb_used = user_bomb]
  IN IF bot_move = "bomb" THEN [g1 EXCEPT !.bot_bomb_used = TRUE] ELSE g1

\* lines 74-77
apply_bomb_usage(gs, user_bomb, bot_move) ==
  LET g1 == IF user_bomb THEN [gs EXCEPT !.user_bomb_used = TRUE] ELSE gs
  IN IF bot_move = "bomb" THEN [g1 EXCEPT !.bot_bomb_used = TRUE] ELSE g1

\* lines 86-88: the state the two assignments leave, and whether int()
\* raised (line 87 raising assigns nothing, line 88 raising comes after the
\* assignment of line 87)
apply_updated_score(gs, score) ==
  IF score = <<>> THEN [state |-> gs, raised |-> FALSE]
  ELSE IF int_raises(score[1]) THEN [state |-> gs, raised |-> TRUE]
  ELSE IF int_raises(score[2])
  THEN [state |-> [gs EXCEPT !.user_score = int(score[1])], raised |-> TRUE]
  ELSE [state |-> [gs EXCEPT !.user_score = int(score[1]),
                             !.bot_score = int(score[2])],
        raised |-> FALSE]

\* line 91
advance_round(gs) == [gs EXCEPT !.round = @ + 1]

\* mutant: line 91 indented into the block of line 86, so that the round
\* advances only when the scores are read from the reply
update_round_in_block(gs, response_text, bot_move) ==
  LET p == scan(response_text)
      g1 == apply_round_result(gs, p.round_result)
      g2 == apply_bomb_usage(g1, p.user_bomb_valid, bot_move)
      r == apply_updated_score(g2, p.updated_score)
  IN IF r.raised \/ p.updated_score = <<>> THEN r
     ELSE [state |-> advance_round(r.state), raised |-> FALSE]

\* game_state after the call, and whether the call raised: an exception of
\* line 87 or 88 leaves the function before line 91
update_state_from_response(gs, response_text, bot_move) ==
  LET p == scan(response_text)
      g1 == apply_round_result(gs, p.round_result)
      g2 == apply_bomb_usage(g1, p.user_bomb_valid, bot_move)
      r == apply_updated_score(g2, p.updated_score)
  IN IF r.raised THEN r
     ELSE [state |-> advance_round(r.state), raised |-> FALSE]

(***************************************************************************)
(* run_round.                                                              *)
(***************************************************************************)
\* lines 100-103 and 107: the two messages returned in place of a reply
SdkMessage == "Error: Install the Gemini SDK"
KeyMessage == "Error: Set GEMINI_API_KEY"

\* lines 112-120: the values formatted into the instruction
instruction(gs, bot_move, user_input) ==
  [round_number |-> gs.round, user_bomb |-> gs.user_bomb_used,
   bot_bomb |-> gs.bot_bomb_used, user_score |-> gs.user_score,
   bot_score |-> gs.bot_score, bot_move |-> bot_move,
   user_input |-> user_input]

NoRequest == "none"

\* mutant: the bot's flag is set as soon as the move is picked, before the
\* judge is called
run_round_marks_early(gs, user_input, bot_move, judge) ==
  IF ~sdk
  THEN [state |-> gs, stage |-> "import", exit |-> "return",
        result |-> SdkMessage, bot_move |-> "none", request |-> NoRequest]
  ELSE IF ~api_key
  THEN [state |-> gs, stage |-> "api_key", exit |-> "return",
        result |-> KeyMessage, bot_move |-> "none", request |-> NoRequest]
  ELSE IF judge.kind = "prompts_raise"
  THEN [state |-> gs, stage |-> "load_prompts", exit |-> "raise",
        result |-> "none", bot_move |-> "none", request |-> NoRequest]
  ELSE IF judge.kind = "raise"
  THEN [state |-> [gs EXCEPT !.bot_bomb_used = @ \/ bot_move = "bomb"],
        stage |-> "judge", exit |-> "raise",
        result |-> "none", bot_move |-> bot_move,
        request |-> instruction(gs, bot_move, user_input)]
  ELSE LET response_text ==
             IF judge.kind = "no_text" THEN NoTextReply ELSE judge.text
           u == update_state_from_response(gs, response_text, bot_move)
       IN [state |-> u.state,
           stage |-> IF u.raised THEN "update" ELSE "done",
           exit |-> IF u.raised THEN "raise" ELSE "return",
           result |-> IF u.raised THEN "none" ELSE "response_text",
           bot_move |-> bot_move,
           request |-> instruction(gs, bot_move, user_input)]

\* What one call does, given the move random.choice picks and what the calls
\* out of the program do: judge.kind is "prompts_raise" (load_prompts raises),
\* "raise" (the client or generate_content raises), "no_text" (response.text
\* is None or empty) or "text" (response.text is judge.text).
\* stage is where the call ends: "import" (line 100), "api_key" (line 107),
\* "load_prompts" (line 109), "judge" (lines 122-129), "update" (line 132
\* raising) or "done" (line 133);
\* exit is "return" or "raise"; result is the value returned, "response_text"
\* standing for the text of the reply.
run_round(gs, user_input, bot_move, judge) ==
  IF ~sdk
  THEN [state |-> gs, stage |-> "import", exit |-> "return",
        result |-> SdkMessage, bot_move |-> "none", request |-> NoRequest]
  ELSE IF ~api_key
  THEN [state |-> gs, stage |-> "api_key", exit |-> "return",
        result |-> KeyMessage, bot_move |-> "none", request |-> NoRequest]
  ELSE IF judge.kind = "prompts_raise"
  THEN [state |-> gs, stage |-> "load_prompts", exit |-> "raise",
        result |-> "none", bot_move |-> "none", request |-> NoRequest]
  ELSE IF judge.kind = "raise"
  THEN [state |-> gs, stage |-> "judge", exit |-> "raise",
        result |-> "none", bot_move |-> bot_move,
        request |-> instruction(gs, bot_move, user_input)]
  ELSE LET response_text ==
             IF judge.kind = "no_text" THEN NoTextReply ELSE judge.text
           u == update_state_from_response(gs, response_text, bot_move)
       IN [state |-> u.state,
           stage |-> IF u.raised THEN "update" ELSE "done",
           exit |-> IF u.raised THEN "raise" ELSE "return",
           result |-> IF u.raised THEN "none" ELSE "response_text",
           bot_move |-> bot_move,
           request |-> instruction(gs, bot_move, user_input)]

JudgeBehaviours ==
  {[kind |-> k, text |-> NoTextReply] : k \in {"prompts_raise", "raise", "no_text"}}
  \cup {[kind |-> "text", text |-> t] : t \in JudgeReplies}

UserInputs == {"rock", "bomb!"}

(***************************************************************************)
(* The match: main's loop, or a program that imports the module (line 157) *)
(* and calls run_round itself, handling what it raises.                    *)
(* call is the last call of run_round (reply: "no_text" or "text" when a   *)
(* reply was obtained; user_bomb: line 74 held for it; score_block: line   *)
(* 86 held for it); hist counts the                                        *)
(* calls, the replies obtained, the calls in which the bot's move was the  *)
(* bomb and the replies for which line 74 held.                            *)
(***************************************************************************)
NoCall ==
  [stage |-> "none", exit |-> "none", result |-> "none", bot_move |-> "none",
   request |-> NoRequest, reply |-> "none", user_bomb |-> FALSE,
   score_block |-> FALSE]

NoUpdate == [pc |-> "none"]

Init ==
  /\ game_state = InitialState
  /\ sdk \in BOOLEAN
  /\ api_key \in BOOLEAN
  /\ cli \in {"running", "imported"}
  /\ call = NoCall
  /\ hist = [calls |-> 0, replies |-> 0, bot_bombs |-> 0, user_bombs |-> 0]
  /\ upd = NoUpdate

\* one call of run_round and what the history records of it
Call(user_input, bot_move, judge) ==
  \E r \in {run_round(game_state, user_input, bot_move, judge)} :
    \E ub \in {r.stage \in {"update", "done"}
                /\ scan(judge.text).user_bomb_valid} :
      /\ game_state' = r.state
      /\ call' = [stage |-> r.stage, exit |-> r.exit, result |-> r.result,
                  bot_move |-> r.bot_move, request |-> r.request,
                  reply |-> IF r.stage \in {"update", "done"}
                            THEN judge.kind ELSE "none",
                  user_bomb |-> ub,
                  score_block |-> r.stage \in {"update", "done"}
                                  /\ scan(judge.text).updated_score # <<>>]
      /\ hist' = [calls |-> hist.calls + 1,
                  replies |-> hist.replies
                               + (IF r.stage \in {"update", "done"}
                                  THEN 1 ELSE 0),
                  bot_bombs |-> hist.bot_bombs
                                 + (IF r.bot_move = "bomb" THEN 1 ELSE 0),
                  user_bombs |-> hist.user_bombs + (IF ub THEN 1 ELSE 0)]

\* lines 141-154, a non-empty input: an exception of run_round is not caught
\* and ends the process
main_round ==
  /\ cli = "running"
  /\ hist.calls < MaxCalls
  /\ \E user_input \in UserInputs, bot_move \in get_bot_move(game_state),
        judge \in JudgeBehaviours :
       /\ Call(user_input, bot_move, judge)
       /\ cli' = IF call'.exit = "raise" THEN "traceback" ELSE "running"
  /\ UNCHANGED <<sdk, api_key, upd>>

\* lines 144-149: end of input, an interrupt or an empty line
main_quit ==
  /\ cli = "running"
  /\ cli' = "bye"
  /\ UNCHANGED <<game_state, sdk, api_key, call, hist, upd>>

\* run_round called by an importing program
import_call ==
  /\ cli = "imported"
  /\ hist.calls < MaxCalls
  /\ \E user_input \in UserInputs, bot_move \in get_bot_move(game_state),
        judge \in JudgeBehaviours :
       Call(user_input, bot_move, judge)
  /\ UNCHANGED <<sdk, api_key, cli, upd>>

Next == main_round \/ main_quit \/ import_call

Spec == Init /\ [][Next]_vars

(***************************************************************************)
(* What the properties of one call ask of the text of a reply.             *)
(***************************************************************************)
\* some line of the text is the line l
LineIs(text, l) == \E i \in 1..Len(text) : text[i] = l

\* the first line of the text holding the label is the line l
FirstLabelledIs(text, label, l) ==
  \E i \in 1..Len(text) :
    text[i] = l /\ \A j \in 1..(i - 1) : ~Contains(text[j], label)

NoLineHas(text, label) == \A i \in 1..Len(text) : ~Contains(text[i], label)

\* the side the first line holding `Round Result:` names
Winner(text) ==
  LET i == FirstWith(text, RoundResultLabel) IN
  IF i # 0 /\ Contains(text[i], "User wins") THEN "user"
  ELSE IF i # 0 /\ Contains(text[i], "Bot wins") THEN "bot"
  ELSE "none"

\* the block of rule 3 in the lines: the first line holding `Updated Score:`
\* must have two lines after it, and from it on a `User:` number and a `Bot:`
\* number must both be found; the digits of the first of each
BlockOf(lines) ==
  LET i == FirstWith(lines, UpdatedScoreLabel) IN
  IF i = 0 \/ i + 2 > Len(lines) THEN <<>>
  ELSE LET u == re_search(UserLabel, join(lines, i))
           b == re_search(BotLabel, join(lines, i))
       IN IF u = <<>> \/ b = <<>> THEN <<>> ELSE <<u[1], b[1]>>

\* the digits of the first `User:` number and of the first `Bot:` number
\* from the first line holding `Updated Score:` on, <<>> unless both are found
FirstPair(lines) ==
  LET i == FirstWith(lines, UpdatedScoreLabel) IN
  IF i = 0 THEN <<>>
  ELSE LET u == re_search(UserLabel, join(lines, i))
           b == re_search(BotLabel, join(lines, i))
       IN IF u = <<>> \/ b = <<>> THEN <<>> ELSE <<u[1], b[1]>>

\* the line holds the label and, after its last colon, the value (blanks and
\* case aside)
Says(line, label, value) ==
  Contains(line, label) /\ lower(strip(split_last(line))) = <<value>>

SomeLineSays(text, label, value) ==
  \E i \in 1..Len(text) : Says(text[i], label, value)

\* the last line holding the label says the value
LastLineSays(text, label, value) ==
  \E i \in 1..Len(text) :
    /\ Says(text[i], label, value)
    /\ \A j \in (i + 1)..Len(text) : ~Contains(text[j], label)

\* the four labels the three loops look for
AnchorLabels ==
  {RoundResultLabel, MoveStatusLabel, UserMoveLabel, UpdatedScoreLabel}

NoAnchor(text) == \A l \in AnchorLabels : NoLineHas(text, l)

\* from the first line holding `Updated Score:` to the end of the text, one
\* of the two numbers is found and the other is not
OneNumberOnly(text) ==
  LET i == FirstWith(text, UpdatedScoreLabel) IN
  /\ i # 0
  /\ (re_search(UserLabel, join(text, i)) = <<>>)
       # (re_search(BotLabel, join(text, i)) = <<>>)

\* some line holding `Updated Score:` has two further lines
SomeScoreLineWithTwoMore(lines) ==
  \E i \in 1..Len(lines) :
    Contains(lines[i], UpdatedScoreLabel) /\ i + 2 <= Len(lines)

\* the line i holds `Updated Score:` and is the last or the last but one
LateScoreLine(lines, i) ==
  Contains(lines[i], UpdatedScoreLabel) /\ i + 1 >= Len(lines)

\* What the properties below ask of the text of a reply, lines being the
\* text with the blank lines and blanks at its two ends removed.
text_facts(text) ==
  LET lines == strip_split(text)
      first == FirstWith(lines, UpdatedScoreLabel)
  IN [first_result_user |->
        FirstLabelledIs(text, RoundResultLabel, LnUserWins),
      first_result_bot |->
        FirstLabelledIs(text, RoundResultLabel, LnBotWins),
      winner |-> Winner(text),
      no_score_label |-> NoLineHas(text, UpdatedScoreLabel),
      last_status_valid |-> LastLineSays(text, MoveStatusLabel, "valid"),
      last_status_invalid |-> LastLineSays(text, MoveStatusLabel, "invalid"),
      last_move_bomb |-> LastLineSays(text, UserMoveLabel, "bomb"),
      no_anchor |-> NoAnchor(text),
      one_number_only |-> OneNumberOnly(text),
      from_first_or_never |-> score_line(lines) \in {0, first},
      first_pair |-> FirstPair(lines),
      two_more |-> SomeScoreLineWithTwoMore(lines),
      first_late |-> first # 0 /\ LateScoreLine(lines, first),
      no_block |-> BlockOf(lines) = <<>>]

\* text_facts of every text of Replies, tabulated once, line by line
RECURSIVE FactsTable(_, _)
FactsTable(prefix, n) ==
  IF n = 0 THEN text_facts(prefix)
  ELSE [l \in Lines |-> FactsTable(prefix \o <<l>>, n - 1)] @@ <<>>

facts_table == [n \in 1..MaxLines |-> FactsTable(<<>>, n)] @@ <<>>

facts(text) == Walk(facts_table[Len(text)], text, 1)

(***************************************************************************)
(* update_state_from_response on its own: one call from any state a match  *)
(* can have reached, with any text of Replies and any bot move.  upd holds *)
(* the arguments of the call, the state before it, whether it raised, and  *)
(* (facts) what the properties ask of the text.                            *)
(***************************************************************************)
\* the states before the call: the initial one, or a later round with any
\* scores and flags
Priors ==
  {InitialState}
  \cup {[round |-> 2, user_score |-> u, bot_score |-> b,
         user_bomb_used |-> ub, bot_bomb_used |-> bb] :
          u \in 0..MaxPrior, b \in 0..MaxPrior, ub \in BOOLEAN, bb \in BOOLEAN}

InitUpdate ==
  /\ game_state \in Priors
  /\ sdk = TRUE
  /\ api_key = TRUE
  /\ cli = "imported"
  /\ call = NoCall
  /\ hist = [calls |-> 0, replies |-> 0, bot_bombs |-> 0, user_bombs |-> 0]
  /\ \E t \in Replies, m \in {"rock", "bomb"} :
       upd = [pc |-> "call", before |-> game_state, response_text |-> t,
              bot_move |-> m, raised |-> FALSE, facts |-> facts(t)]

update_call ==
  /\ upd.pc = "call"
  /\ \E r \in {update_state_from_response(game_state, upd.response_text,
                                            upd.bot_move)} :
       /\ game_state' = r.state
       /\ upd' = [upd EXCEPT !.pc = "done", !.raised = r.raised]
  /\ UNCHANGED <<sdk, api_key, cli, call, hist>>

NextUpdate == update_call

SpecUpdate == InitUpdate /\ [][NextUpdate]_vars

(***************************************************************************)
(* Properties of the match (Spec).                                         *)
(***************************************************************************)
\* C1: after N calls of run_round on a fresh match, each of which obtained a
\* reply of the judge (whatever its text, a reply without text included), the
\* round counter is N + 1.
C1_RoundIsCallsPlusOne ==
  hist.replies = hist.calls => game_state.round = hist.calls + 1

\* C2: a call of run_round that ends without a reply of the judge (the SDK
\* or the key missing, or the judge's call failing once the bot's move is
\* picked) leaves the five fields of game_state as they were before it.
C2_NoReplyNoMutation ==
  [][(hist'.calls = hist.calls + 1 /\ call'.reply = "none")
       => game_state' = game_state]_vars

\* a round has been played, then the judge's call failed with the bomb picked
C2_Witness ==
  /\ call.stage = "judge"
  /\ call.bot_move = "bomb"
  /\ game_state.round = 2
  /\ game_state.user_score = 1
  /\ ~game_state.bot_bomb_used

\* C3: every failure of the judge's call (unavailable or failed) comes back
\* to the caller of run_round as an error string, and main's loop stays
\* alive.
C3_FailureIsReturned ==
  (cli # "imported" /\ call.stage \in {"import", "api_key", "judge"})
    => call.exit = "return" /\ call.result # "none" /\ cli = "running"

\* C4: once user_bomb_used is true it stays true, and so does bot_bomb_used.
C4_FlagsMonotonic ==
  [][/\ game_state.user_bomb_used => game_state'.user_bomb_used
     /\ game_state.bot_bomb_used => game_state'.bot_bomb_used]_vars

\* both flags were set before the last round, whose reply and move set neither
C4_Witness ==
  /\ call.stage = "done"
  /\ call.request.user_bomb
  /\ call.request.bot_bomb
  /\ ~call.user_bomb
  /\ call.bot_move # "bomb"
  /\ game_state.user_bomb_used
  /\ game_state.bot_bomb_used

\* C5: the move get_bot_move returns is one of the four moves, and is not the
\* bomb when bot_bomb_used is true at the time of the call.
C5_SelectorRespectsFlag ==
  [][(hist'.calls = hist.calls + 1 /\ call'.bot_move # "none")
       => /\ call'.bot_move \in MOVES
          /\ game_state.bot_bomb_used => call'.bot_move # "bomb"]_vars

\* a move picked while the flag was true
C5_Witness ==
  /\ call.stage \in {"judge", "done"}
  /\ call.request.bot_bomb
  /\ call.bot_move \in {"rock", "paper", "scissors"}

\* C6: over the calls of run_round of one match, those in which the judge's
\* call fails included, the bot's move is the bomb in at most one call.
C6_BotBombAtMostOnce == hist.bot_bombs <= 1

\* C7: over the rounds of one match at most one reply is taken as a valid
\* bomb of the user (line 74 holds for it).
C7_UserBombAtMostOnce == hist.user_bombs <= 1

\* C12, as stated: from one state to the next user_score and bot_score never
\* decrease, and both are always at least 0.
C12_ScoresNeverDecrease ==
  [][/\ game_state'.user_score >= game_state.user_score
     /\ game_state'.bot_score >= game_state.bot_score
     /\ game_state'.user_score >= 0
     /\ game_state'.bot_score >= 0]_vars

\* C12, amended: both scores are always at least 0, and neither decreases
\* from one state to the next except by a round whose reply holds a valid
\* `Updated Score:` block (line 86 holds for it).
C12_ScoresDecreaseOnlyByBlock ==
  [][/\ game_state'.user_score >= 0
     /\ game_state'.bot_score >= 0
     /\ \/ hist'.calls = hist.calls + 1 /\ call'.score_block
        \/ /\ game_state'.user_score >= game_state.user_score
           /\ game_state'.bot_score >= game_state.bot_score]_vars

\* a round without a block, played from 2 : 0, has raised the user's score
C12_Witness ==
  /\ call.stage = "done"
  /\ ~call.score_block
  /\ call.request.user_score = 2
  /\ call.request.bot_score = 0
  /\ game_state.user_score = 3
  /\ game_state.bot_score = 0

\* C18: the values placed in the request of a call are those of game_state
\* as the updates of all the replies obtained before have left it (round
\* number 1 + the replies obtained, the initial state for the first request),
\* and each reply obtained is followed by one complete update (round advances
\* by 1), a call without a reply by none.
C18_SequentialRounds ==
  [][hist'.calls = hist.calls + 1 =>
       /\ call'.stage \in {"judge", "update", "done"} =>
            /\ call'.request.round_number = game_state.round
            /\ call'.request.user_score = game_state.user_score
            /\ call'.request.bot_score = game_state.bot_score
            /\ call'.request.user_bomb = game_state.user_bomb_used
            /\ call'.request.bot_bomb = game_state.bot_bomb_used
            /\ call'.request.round_number = hist.replies + 1
       /\ call'.reply # "none" => game_state'.round = game_state.round + 1
       /\ call'.reply = "none" => game_state' = game_state]_vars

(***************************************************************************)
(* Properties of one call of update_state_from_response (SpecUpdate).      *)
(***************************************************************************)
\* the scores after the call are those before it, with these increments
ScoresStepBy(du, db) ==
  /\ game_state.user_score = upd.before.user_score + du
  /\ game_state.bot_score = upd.before.bot_score + db

\* the scores the winner's increment alone leaves: those before the call,
\* with 1 more for the side the first `Round Result:` line names
IncrementOnly ==
  LET w == upd.facts.winner IN
  IF w = "user" THEN ScoresStepBy(1, 0)
  ELSE IF w = "bot" THEN ScoresStepBy(0, 1)
  ELSE ScoresStepBy(0, 0)

\* C8, as stated: if some line of the reply is `Round Result: User wins` and
\* no line holds `Updated Score:`, the call adds 1 to user_score and leaves
\* bot_score; the same with Bot wins and bot_score.
C8_AnyResultLineIncrements ==
  upd.pc = "done" =>
    /\ (LineIs(upd.response_text, LnUserWins)
        /\ NoLineHas(upd.response_text, UpdatedScoreLabel))
         => ScoresStepBy(1, 0)
    /\ (LineIs(upd.response_text, LnBotWins)
        /\ NoLineHas(upd.response_text, UpdatedScoreLabel))
         => ScoresStepBy(0, 1)

\* C8, amended: if the first line of the reply holding `Round Result:` is
\* `Round Result: User wins` and no line holds `Updated Score:`, the call adds
\* 1 to user_score and leaves bot_score; the same with Bot wins and bot_score.
C8_FirstResultLineIncrements ==
  upd.pc = "done" =>
    LET f == upd.facts IN
    /\ (f.first_result_user /\ f.no_score_label) => ScoresStepBy(1, 0)
    /\ (f.first_result_bot /\ f.no_score_label) => ScoresStepBy(0, 1)

\* User wins first, Bot wins after it, from scores 1 : 1
C8_Witness ==
  /\ upd.pc = "done"
  /\ upd.response_text = <<LnUserWins, LnBotWins>>
  /\ upd.before.user_score = 1
  /\ game_state.user_score = 2
  /\ game_state.bot_score = 1

\* C9: if the reply (the blank lines and blanks at its two ends aside) holds
\* a valid `Updated Score:` block with the numbers u and b, the round ends
\* with user_score = u and bot_score = b, whatever the state before and the
\* `Round Result:` line.
C9_ValidBlockOverrides ==
  (upd.pc = "done" /\ BlockOf(strip_split(upd.response_text)) # <<>>)
    => /\ ~upd.raised
       /\ game_state.user_score = int(BlockOf(strip_split(upd.response_text))[1])
       /\ game_state.bot_score = int(BlockOf(strip_split(upd.response_text))[2])

\* C10, as stated: if the reply holds `Move Status: VALID` and
\* `User Move: bomb`, user_bomb_used is true after the call; if its move
\* status is INVALID the call leaves user_bomb_used as it was.
C10_AnyValidBombLineSets ==
  upd.pc = "done" =>
    /\ (SomeLineSays(upd.response_text, MoveStatusLabel, "valid")
        /\ SomeLineSays(upd.response_text, UserMoveLabel, "bomb"))
         => game_state.user_bomb_used
    /\ LastLineSays(upd.response_text, MoveStatusLabel, "invalid")
         => game_state.user_bomb_used = upd.before.user_bomb_used

\* C10, amended: if the last line holding `Move Status:` says VALID and the
\* last line holding `User Move:` says bomb, user_bomb_used is true after the
\* call; if the last line holding `Move Status:` says INVALID the call leaves
\* user_bomb_used as it was.
C10_LastValidBombLineSets ==
  upd.pc = "done" =>
    LET f == upd.facts IN
    /\ (f.last_status_valid /\ f.last_move_bomb) => game_state.user_bomb_used
    /\ f.last_status_invalid
         => game_state.user_bomb_used = upd.before.user_bomb_used

\* INVALID first, VALID after it, then the bomb: the flag goes from false to
\* true
C10_Witness ==
  /\ upd.pc = "done"
  /\ upd.response_text = <<LnInvalid, LnValid, LnUserBomb>>
  /\ ~upd.before.user_bomb_used
  /\ game_state.user_bomb_used

\* C11: for an empty reply, and for any reply none of whose lines holds one
\* of the four labels, the call raises nothing, adds 1 to round, sets
\* bot_bomb_used when the bot's move is the bomb and leaves user_score,
\* bot_score and user_bomb_used (and bot_bomb_used otherwise) as they were.
C11_NoAnchorOnlyAdvances ==
  (upd.pc = "done" /\ upd.facts.no_anchor)
    => /\ ~upd.raised
       /\ game_state.round = upd.before.round + 1
       /\ game_state.user_score = upd.before.user_score
       /\ game_state.bot_score = upd.before.bot_score
       /\ game_state.user_bomb_used = upd.before.user_bomb_used
       /\ game_state.bot_bomb_used
            = (upd.before.bot_bomb_used \/ upd.bot_move = "bomb")

\* the empty reply, the bot playing its bomb for the first time
C11_Witness ==
  /\ upd.pc = "done"
  /\ upd.response_text = << <<>> >>
  /\ upd.bot_move = "bomb"
  /\ ~upd.before.bot_bomb_used
  /\ game_state.bot_bomb_used
  /\ game_state.round = upd.before.round + 1

\* C13: if from the `Updated Score:` line to the end of the reply only one of
\* the `User:` and `Bot:` numbers is found, the call overwrites neither
\* score: the scores after it are those before it plus the increment of the
\* winner.
C13_OneNumberNoOverwrite ==
  (upd.pc = "done" /\ upd.facts.one_number_only)
    => ~upd.raised /\ IncrementOnly

\* `Updated Score:`, `User: 3` and then the result line: 1 : 1 becomes 2 : 1
C13_Witness ==
  /\ upd.pc = "done"
  /\ upd.response_text = <<LnUpdatedScore, LnUser("3"), LnUserWins>>
  /\ upd.before.user_score = 1
  /\ upd.before.bot_score = 1
  /\ game_state.user_score = 2
  /\ game_state.bot_score = 1

\* C14: the search for the `User:` and `Bot:` numbers starts at the first
\* line holding `Updated Score:` or does not happen; no later line holding
\* the label is where it starts.
\* (seen from the scores: unless int() raised, they are those of the
\* increment alone or the numbers found from that first line on.)
C14_SearchFromFirstOccurrence ==
  upd.pc = "done" =>
    LET f == upd.facts IN
    /\ f.from_first_or_never
    /\ \/ upd.raised
       \/ IncrementOnly
       \/ /\ f.first_pair # <<>>
          /\ game_state.user_score = int(f.first_pair[1])
          /\ game_state.bot_score = int(f.first_pair[2])

\* the label on the second line and again, with both numbers, on the third
\* and last: no search, User wins makes 0 : 0 into 1 : 0
C14_Witness ==
  /\ upd.pc = "done"
  /\ upd.response_text = <<LnUserWins, LnUpdatedScore, LnScoreInline>>
  /\ score_line(upd.response_text) = 0
  /\ upd.before.user_score = 0
  /\ upd.before.bot_score = 0
  /\ game_state.user_score = 1
  /\ game_state.bot_score = 0

\* C15, as stated: the call overwrites the scores only if two further lines
\* follow an `Updated Score:` line in the trimmed reply, and when an
\* `Updated Score:` line is the last or the last but one the scores are not
\* overwritten: they are those of the winner's increment.
C15_AnyLateScoreLineNoOverwrite ==
  upd.pc = "done" =>
    LET lines == strip_split(upd.response_text) IN
    /\ (upd.raised \/ ~IncrementOnly)
         => SomeScoreLineWithTwoMore(lines)
    /\ (\E i \in 1..Len(lines) : LateScoreLine(lines, i))
         => ~upd.raised /\ IncrementOnly

\* C15, amended: the same, for the first `Updated Score:` line of the trimmed
\* reply being the last or the last but one.
C15_FirstLateScoreLineNoOverwrite ==
  upd.pc = "done" =>
    LET f == upd.facts IN
    /\ (upd.raised \/ ~IncrementOnly) => f.two_more
    /\ f.first_late => ~upd.raised /\ IncrementOnly

\* the label with both numbers, the result and an empty line: trimmed, the
\* label's line is the last but one, and Bot wins makes 0 : 0 into 0 : 1
C15_Witness ==
  /\ upd.pc = "done"
  /\ upd.response_text = <<LnScoreInline, LnBotWins, <<>>>>
  /\ upd.before.user_score = 0
  /\ upd.before.bot_score = 0
  /\ game_state.user_score = 0
  /\ game_state.bot_score = 1

\* C16: the first line holding `Round Result:` alone decides the winner (the
\* user if it holds `User wins`, else the bot if it holds `Bot wins`, else
\* nobody), later such lines being ignored; so, where no block overwrites
\* the scores, the call raises at most one of them, by exactly 1.
C16_FirstResultLineDecides ==
  (upd.pc = "done" /\ upd.facts.no_block)
    => /\ ~upd.raised
       /\ IncrementOnly
       /\ (game_state.user_score + game_state.bot_score)
            - (upd.before.user_score + upd.before.bot_score) \in {0, 1}

\* a draw first, then User wins, then Bot wins: 1 : 1 stays
C16_Witness ==
  /\ upd.pc = "done"
  /\ upd.response_text = <<LnDraw, LnUserWins, LnBotWins>>
  /\ upd.before.user_score = 1
  /\ upd.before.bot_score = 1
  /\ game_state.user_score = 1
  /\ game_state.bot_score = 1

\* applyRoundResult as the specification states it, on the fields read from
\* the reply: the winner's increment only when no pair of scores is present,
\* the overwrite when one is, the user's flag, the bot's flag, the round
applyRoundResult(gs, parsed, botMoveWasSpecial) ==
  LET pair == parsed.updated_score
      g1 == IF parsed.round_result = "user" /\ pair = <<>>
            THEN [gs EXCEPT !.user_score = @ + 1] ELSE gs
      g2 == IF parsed.round_result = "bot" /\ pair = <<>>
            THEN [g1 EXCEPT !.bot_score = @ + 1] ELSE g1
      g3 == IF pair # <<>>
            THEN [g2 EXCEPT !.user_score = int(pair[1]),
                            !.bot_score = int(pair[2])]
            ELSE g2
      g4 == IF parsed.user_bomb_valid
            THEN [g3 EXCEPT !.user_bomb_used = TRUE] ELSE g3
      g5 == IF botMoveWasSpecial
            THEN [g4 EXCEPT !.bot_bomb_used = TRUE] ELSE g4
  IN [g5 EXCEPT !.round = @ + 1]

\* C17: for every state before the call, reply and bot move, the call ends
\* in the state applyRoundResult gives for the fields of the reply.
C17_SameAsApplyRoundResult ==
  upd.pc = "done" =>
    /\ ~upd.raised
    /\ game_state = applyRoundResult(upd.before, scan(upd.response_text),
                                     upd.bot_move = "bomb")

====
